---- MODULE Spec2Model ----
(***************************************************************************)
(* Model of scripts/utils/deploy.py (the ordered, parameterised SQL        *)
(* deployment) and scripts/utils/data_quality_validator.py (the rule       *)
(* driven data quality validator).                                         *)
(*                                                                         *)
(* Text (SQL file content, file names, configuration values) is a sequence *)
(* of one-character strings.  The warehouse connector is the environment:  *)
(* every call on it either returns or raises, chosen nondeterministically. *)
(* DeploySpec runs deploy_environment once, ValidateSpec runs              *)
(* validate_data_quality once.                                             *)
(***************************************************************************)
EXTENDS Integers, Sequences, FiniteSets, TLC

VARIABLES
    environment,        \* the --environment argument
    pc,                 \* position of the running command
    session,            \* conn:   "none" | "open" | "closed"
    cursor,             \* cursor: "none" | "open" | "closed"
    raised,             \* the exception in flight, newest first (__context__ chain)
    exitStatus,         \* process exit status once pc = "done", else -1
    stdout,             \* the lines printed so far
    config,             \* the loaded environment document
    \* ---- deploy.py
    fs,                 \* scripts/<environment>/: folder -> directory (or absent)
    replacements,       \* the placeholder map, in insertion order
    folderIdx,          \* index into deployment_order
    sql_files,          \* sorted glob result of the current folder
    fileIdx,            \* index into sql_files
    sql_content,        \* text of the current file, placeholders substituted
    statements,         \* statements of the current file
    stmtIdx,            \* index into statements
    executed,           \* every statement cursor.execute accepted, in order
    attempted,          \* every statement handed to cursor.execute, in order
    \* ---- data_quality_validator.py
    rules,              \* the loaded rule document
    database,           \* config['database']
    checks,             \* rules['data_quality_checks']
    ruleIdx,            \* index of the current rule of the current pass
    colIdx,             \* index of the current column of the current rule
    failed_checks,      \* the running pass's local failure list
    all_failed_checks,  \* the accumulated failure list
    queries             \* every query issued on the cursor, with the row fetched

vars == <<environment, pc, session, cursor, raised, exitStatus, stdout, config,
          fs, replacements, folderIdx, sql_files, fileIdx, sql_content, statements, stmtIdx,
          executed, attempted,
          rules, database, checks, ruleIdx, colIdx, failed_checks,
          all_failed_checks, queries>>

sharedVars == <<environment, pc, session, cursor, raised, exitStatus, stdout, config>>
deployVars == <<fs, replacements, folderIdx, sql_files, fileIdx, sql_content,
                statements, stmtIdx, executed, attempted>>
validateVars == <<rules, database, checks, ruleIdx, colIdx, failed_checks,
                  all_failed_checks, queries>>

(***************************************************************************)
(* Text                                                                    *)
(***************************************************************************)

\* Code points of the characters the model's texts use (str comparison and
\* list.sort() order strings by code point).
Ord ==
    ("\n" :> 10) @@ (" " :> 32) @@ ("." :> 46) @@ ("0" :> 48) @@ ("1" :> 49) @@
    ("2" :> 50) @@ ("/" :> 47) @@ (";" :> 59) @@ ("_" :> 95) @@ ("a" :> 97) @@ ("b" :> 98) @@
    ("c" :> 99) @@ ("e" :> 101) @@ ("g" :> 103) @@ ("l" :> 108) @@ ("n" :> 110) @@
    ("o" :> 111) @@ ("q" :> 113) @@ ("s" :> 115) @@ ("t" :> 116) @@ ("u" :> 117) @@
    ("x" :> 120)

\* str.__lt__: the first differing character decides, a proper prefix is smaller.
RECURSIVE StrLess(_, _)
StrLess(a, b) ==
    IF b = <<>> THEN FALSE
    ELSE IF a = <<>> THEN TRUE
    ELSE IF a[1] # b[1] THEN Ord[a[1]] < Ord[b[1]]
    ELSE StrLess(Tail(a), Tail(b))

StartsWith(s, p) == Len(s) >= Len(p) /\ SubSeq(s, 1, Len(p)) = p
EndsWith(s, p) == Len(s) >= Len(p) /\ SubSeq(s, Len(s) - Len(p) + 1, Len(s)) = p

\* str.replace(old, new) for a non-empty old: left to right, non-overlapping.
RECURSIVE Replace(_, _, _)
Replace(s, old, new) ==
    IF Len(s) < Len(old) THEN s
    ELSE IF StartsWith(s, old)
         THEN new \o Replace(SubSeq(s, Len(old) + 1, Len(s)), old, new)
         ELSE <<s[1]>> \o Replace(Tail(s), old, new)

\* str.split(sep) for a one-character sep: Len = number of sep + 1 pieces.
RECURSIVE SplitOn(_, _)
SplitOn(s, sep) ==
    IF \A i \in 1..Len(s) : s[i] # sep THEN <<s>>
    ELSE LET i == CHOOSE k \in 1..Len(s) :
                      s[k] = sep /\ \A j \in 1..(k - 1) : s[j] # sep
         IN  <<SubSeq(s, 1, i - 1)>> \o SplitOn(SubSeq(s, i + 1, Len(s)), sep)

Whitespace == {" ", "\n"}

\* str.strip(): drop leading and trailing whitespace.
RECURSIVE Strip(_)
Strip(s) ==
    IF s = <<>> THEN s
    ELSE IF s[1] \in Whitespace THEN Strip(Tail(s))
    ELSE IF s[Len(s)] \in Whitespace THEN Strip(SubSeq(s, 1, Len(s) - 1))
    ELSE s

\* f'{{{key}}}': the placeholder token of a key.
Token(key) == <<"{">> \o key \o <<"}">>

DATABASE_NAME == <<"D", "A", "T", "A", "B", "A", "S", "E", "_", "N", "A", "M", "E">>
WAREHOUSE_NAME == <<"W", "A", "R", "E", "H", "O", "U", "S", "E", "_", "N", "A", "M", "E">>
ROLE_NAME == <<"R", "O", "L", "E", "_", "N", "A", "M", "E">>

\* for key, value in replacements.items(): sql_content.replace('{key}', value)
RECURSIVE Substitute(_, _)
Substitute(text, repl) ==
    IF repl = <<>> THEN text
    ELSE Substitute(Replace(text, Token(repl[1].key), repl[1].value),
                    Tail(repl))

\* The statements kept as the pieces are, untrimmed.
SplitStatementsUntrimmed(text) ==
    SelectSeq(SplitOn(text, ";"), LAMBDA p : Strip(p) # <<>>)

\* [stmt.strip() for stmt in sql_content.split(';') if stmt.strip()]
SplitStatements(text) ==
    LET pieces == SplitOn(text, ";")
        keep == SelectSeq(pieces, LAMBDA p : Strip(p) # <<>>)
    IN  [i \in 1..Len(keep) |-> Strip(keep[i])]

PreviewLen == 100
\* statement[:100]
Preview(statement) ==
    IF Len(statement) <= PreviewLen THEN statement
    ELSE SubSeq(statement, 1, PreviewLen)

(***************************************************************************)
(* Inputs shared by the two commands                                       *)
(***************************************************************************)

\* choices=['dev', 'prod']
Environments == {<<"d", "e", "v">>, <<"p", "r", "o", "d">>}

UpperOf ==
    ("d" :> "D") @@ ("e" :> "E") @@ ("v" :> "V") @@ ("p" :> "P") @@
    ("r" :> "R") @@ ("o" :> "O")
\* environment.upper()
Upper(s) == [i \in 1..Len(s) |-> UpperOf[s[i]]]

\* config/<environment>.yml as yaml.safe_load returns it: a complete document,
\* one without `role` and one without `database`.
ConfigDocs ==
    { [database |-> <<"P">>, warehouse |-> <<"W", "H">>, role |-> <<"R">>],
      [database |-> <<"P">>, warehouse |-> <<"W", "H">>],
      [warehouse |-> <<"W", "H">>, role |-> <<"R">>] }

NotLoaded == <<>>

\* One printed line: what it reports and the text it embeds.
Line(tag, text) == [tag |-> tag, text |-> text]

(***************************************************************************)
(* deploy.py: the script tree                                              *)
(***************************************************************************)

\* The folders in the order a sorted directory listing gives them.
deployment_order_listed ==
    << <<"d", "d", "l">>,
       <<"r", "b", "a", "c">>,
       <<"s", "t", "o", "r", "e", "d", "_", "p", "r", "o", "c", "e", "d", "u", "r", "e", "s">>,
       <<"t", "a", "s", "k", "s">> >>

\* deployment_order = ['ddl', 'stored_procedures', 'tasks', 'rbac']
deployment_order ==
    << <<"d", "d", "l">>,
       <<"s", "t", "o", "r", "e", "d", "_", "p", "r", "o", "c", "e", "d", "u", "r", "e", "s">>,
       <<"t", "a", "s", "k", "s">>,
       <<"r", "b", "a", "c">> >>

Folders == {deployment_order[i] : i \in 1..Len(deployment_order)}

\* f"scripts/{environment}/{folder}"
FolderPath(env, folder) ==
    <<"s", "c", "r", "i", "p", "t", "s", "/">> \o env \o <<"/">> \o folder

PathOf(env, folder, name) == FolderPath(env, folder) \o <<"/">> \o name

SqlExt == <<".", "s", "q", "l">>

Text_use == <<"u", " ">> \o Token(DATABASE_NAME) \o <<";", "\n", "c", ";">>
Text_grant == <<"g", " ">> \o Token(ROLE_NAME) \o <<";", " ", ";", "x">>
Text_blank == <<" ", "\n">>
Text_three == <<"a", ";", "b", ";", "c">>

File(name, text) == [name |-> name, text |-> text]

\* What a recognised folder can be on disk: absent, an empty directory, or a
\* directory holding .sql files, a file of another extension and a dot-file.
DirAbsent == [exists |-> FALSE, entries |-> {}]
DirEmpty == [exists |-> TRUE, entries |-> {}]
DirInit ==
    [exists |-> TRUE,
     entries |-> { File(<<"0", "2", "_", "g">> \o SqlExt, Text_three),
                   File(<<"0", "1", "_", "a">> \o SqlExt, Text_use),
                   File(<<"n", "o", "t", "e", "s", ".", "t", "x", "t">>, Text_three) }]
DirMixed ==
    [exists |-> TRUE,
     entries |-> { File(<<"2">> \o SqlExt, Text_blank),
                   File(<<"1", "0">> \o SqlExt, Text_grant),
                   File(<<".", "_", "2">> \o SqlExt, Text_three) }]

Dirs == {DirAbsent, DirEmpty, DirInit, DirMixed}

\* os.path.exists(folder_path)
Exists(tree, folder) == tree[folder].exists

\* The names glob's pattern "*.sql" matches: the name ends in ".sql" and, as for
\* every pattern that does not itself start with a dot, is not a dot-file.
GlobMatch(name) == EndsWith(name, SqlExt) /\ name[1] # "."

\* The set of paths glob.glob(f"{folder_path}/*.sql") returns.
Glob(tree, env, folder) ==
    {PathOf(env, folder, e.name) : e \in {f \in tree[folder].entries : GlobMatch(f.name)}}

\* glob returns the paths in the directory's enumeration order: any order.
Listings(S) ==
    {l \in [1..Cardinality(S) -> S] : \A i, j \in 1..Cardinality(S) : l[i] = l[j] => i = j}

\* The sort left out: the files stay in enumeration order.
Unsorted(listing) == listing

\* sql_files.sort()
Sorted(listing) == SortSeq(listing, StrLess)

\* open(file_path, 'r').read()
ReadFile(tree, env, path) ==
    LET hit == CHOOSE fe \in {<<f, e>> \in Folders \X UNION {tree[g].entries : g \in Folders} :
                                 e \in tree[f].entries /\ PathOf(env, f, e.name) = path} : TRUE
    IN  hit[2].text

\* Idle values of the other command's variables.
DeployIdle ==
    /\ fs = [f \in Folders |-> DirAbsent]
    /\ replacements = <<>> /\ folderIdx = 0 /\ sql_files = <<>> /\ fileIdx = 0
    /\ sql_content = <<>> /\ statements = <<>> /\ stmtIdx = 0 /\ executed = <<>> /\ attempted = <<>>
ValidateIdle ==
    /\ rules = NotLoaded /\ database = <<>> /\ checks = NotLoaded
    /\ ruleIdx = 0 /\ colIdx = 0 /\ failed_checks = <<>>
    /\ all_failed_checks = <<>> /\ queries = <<>>

\* The state when the command starts: nothing loaded, no session.
Start ==
    /\ environment \in Environments
    /\ pc = "load_config" /\ session = "none" /\ cursor = "none"
    /\ raised = <<>> /\ exitStatus = -1 /\ stdout = <<>> /\ config = NotLoaded

DeployInit ==
    /\ Start
    /\ fs \in [Folders -> Dirs]
    /\ replacements = <<>> /\ folderIdx = 0 /\ sql_files = <<>> /\ fileIdx = 0
    /\ sql_content = <<>> /\ statements = <<>> /\ stmtIdx = 0 /\ executed = <<>> /\ attempted = <<>>
    /\ ValidateIdle


(***************************************************************************)
(* deploy.py: deploy_environment                                           *)
(***************************************************************************)

\* A call record: the statement, the file it came from and that file's folder.
Call(folder, path, statement) ==
    [folder |-> folder, path |-> path, statement |-> statement]

\* line 93: config = load_config(environment); open or yaml may raise.
deploy_load_config ==
    /\ pc = "load_config"
    /\ \/ \E doc \in ConfigDocs : config' = doc /\ pc' = "connect" /\ raised' = raised
       \/ config' = config /\ raised' = <<"load_config">> /\ pc' = "exit"
    /\ UNCHANGED <<environment, session, cursor, exitStatus, stdout>>
    /\ UNCHANGED deployVars /\ UNCHANGED validateVars

\* line 95: conn = connect_snowflake()
deploy_connect ==
    /\ pc = "connect"
    /\ \/ session' = "open" /\ pc' = "cursor" /\ raised' = raised
       \/ session' = session /\ raised' = <<"connect">> /\ pc' = "exit"
    /\ UNCHANGED <<environment, cursor, exitStatus, stdout, config>>
    /\ UNCHANGED deployVars /\ UNCHANGED validateVars

\* line 97: cursor = conn.cursor(), before the try statement is entered.
deploy_cursor ==
    /\ pc = "cursor"
    /\ \/ cursor' = "open" /\ pc' = "replacements" /\ raised' = raised
       \/ cursor' = cursor /\ raised' = <<"cursor">> /\ pc' = "exit"
    /\ UNCHANGED <<environment, session, exitStatus, stdout, config>>
    /\ UNCHANGED deployVars /\ UNCHANGED validateVars

\* lines 105-113: the placeholder map; a missing key raises KeyError in the try.
deploy_replacements ==
    /\ pc = "replacements"
    /\ IF {"database", "warehouse", "role"} \subseteq DOMAIN config
       THEN /\ replacements' =
                 << [key |-> DATABASE_NAME, value |-> config.database],
                    [key |-> WAREHOUSE_NAME, value |-> config.warehouse],
                    [key |-> ROLE_NAME, value |-> config.role] >>
            /\ folderIdx' = 1
            /\ pc' = "folder"
            /\ raised' = raised
       ELSE /\ raised' = <<"KeyError">>
            /\ pc' = "cursor_close"
            /\ UNCHANGED <<replacements, folderIdx>>
    /\ UNCHANGED <<environment, session, cursor, exitStatus, stdout, config>>
    /\ UNCHANGED <<fs, sql_files, fileIdx, sql_content, statements, stmtIdx, executed, attempted>>
    /\ UNCHANGED validateVars

\* The folder loop without the os.path.exists test of line 127: listing an
\* absent folder raises.
deploy_folder_unguarded ==
    /\ pc = "folder"
    /\ \/ /\ folderIdx <= Len(deployment_order)
          /\ Exists(fs, deployment_order[folderIdx])
          /\ \E listing \in Listings(Glob(fs, environment, deployment_order[folderIdx])) :
                sql_files' = Sorted(listing)
          /\ stdout' = Append(stdout, Line("Deploying", deployment_order[folderIdx]))
          /\ fileIdx' = 1
          /\ pc' = "file"
          /\ UNCHANGED <<folderIdx, raised>>
       \/ /\ folderIdx <= Len(deployment_order)
          /\ ~Exists(fs, deployment_order[folderIdx])
          /\ raised' = <<"FileNotFoundError">>
          /\ pc' = "cursor_close"
          /\ UNCHANGED <<folderIdx, stdout, sql_files, fileIdx>>
       \/ /\ folderIdx > Len(deployment_order)
          /\ pc' = "success"
          /\ UNCHANGED <<stdout, sql_files, fileIdx, folderIdx, raised>>
    /\ UNCHANGED <<environment, session, cursor, exitStatus, config>>
    /\ UNCHANGED <<fs, replacements, sql_content, statements, stmtIdx, executed, attempted>>
    /\ UNCHANGED validateVars

\* lines 123-133: one turn of `for folder in deployment_order`.
deploy_folder ==
    /\ pc = "folder"
    /\ \/ /\ folderIdx <= Len(deployment_order)
          /\ Exists(fs, deployment_order[folderIdx])
          /\ \E listing \in Listings(Glob(fs, environment, deployment_order[folderIdx])) :
                sql_files' = Sorted(listing)
          /\ stdout' = Append(stdout, Line("Deploying", deployment_order[folderIdx]))
          /\ fileIdx' = 1
          /\ pc' = "file"
          /\ UNCHANGED folderIdx
       \/ /\ folderIdx <= Len(deployment_order)
          /\ ~Exists(fs, deployment_order[folderIdx])
          /\ folderIdx' = folderIdx + 1
          /\ UNCHANGED <<pc, stdout, sql_files, fileIdx>>
       \/ /\ folderIdx > Len(deployment_order)
          /\ pc' = "success"
          /\ UNCHANGED <<stdout, sql_files, fileIdx, folderIdx>>
    /\ UNCHANGED <<environment, session, cursor, raised, exitStatus, config>>
    /\ UNCHANGED <<fs, replacements, sql_content, statements, stmtIdx, executed, attempted>>
    /\ UNCHANGED validateVars

\* lines 137-141 and 49-67: one turn of `for sql_file in sql_files`, up to the
\* statement list of execute_sql_file.
deploy_file ==
    /\ pc = "file"
    /\ \/ /\ fileIdx <= Len(sql_files)
          /\ stdout' = Append(stdout, Line("Executing file", sql_files[fileIdx]))
          /\ sql_content' =
                 Substitute(ReadFile(fs, environment, sql_files[fileIdx]), replacements)
          /\ statements' = SplitStatements(sql_content')
          /\ stmtIdx' = 1
          /\ pc' = "statement"
          /\ UNCHANGED folderIdx
       \/ /\ fileIdx > Len(sql_files)
          /\ folderIdx' = folderIdx + 1
          /\ pc' = "folder"
          /\ UNCHANGED <<stdout, sql_content, statements, stmtIdx>>
    /\ UNCHANGED <<environment, session, cursor, raised, exitStatus, config>>
    /\ UNCHANGED <<fs, replacements, sql_files, fileIdx, executed, attempted>>
    /\ UNCHANGED validateVars

\* execute_sql_file with the except clause not re-raising: the loop goes on.
execute_sql_file_swallow ==
    /\ pc = "statement"
    /\ \/ /\ stmtIdx <= Len(statements)
          /\ LET call == Call(deployment_order[folderIdx], sql_files[fileIdx],
                              statements[stmtIdx])
                 shown == Append(stdout, Line("Executing", Preview(statements[stmtIdx])))
             IN  /\ attempted' = Append(attempted, call)
                 /\ \/ /\ executed' = Append(executed, call)
                       /\ stdout' = Append(shown, Line("Success", <<>>))
                    \/ /\ stdout' = Append(shown, Line("Error", <<>>))
                       /\ UNCHANGED executed
          /\ stmtIdx' = stmtIdx + 1
          /\ UNCHANGED <<pc, raised, fileIdx>>
       \/ /\ stmtIdx > Len(statements)
          /\ fileIdx' = fileIdx + 1
          /\ pc' = "file"
          /\ UNCHANGED <<stdout, raised, executed, attempted, stmtIdx>>
    /\ UNCHANGED <<environment, session, cursor, exitStatus, config>>
    /\ UNCHANGED <<fs, replacements, folderIdx, sql_files, sql_content, statements>>
    /\ UNCHANGED validateVars

\* lines 71-85: one turn of `for statement in statements`.
execute_sql_file ==
    /\ pc = "statement"
    /\ \/ /\ stmtIdx <= Len(statements)
          /\ LET call == Call(deployment_order[folderIdx], sql_files[fileIdx],
                              statements[stmtIdx])
                 shown == Append(stdout, Line("Executing", Preview(statements[stmtIdx])))
             IN  /\ attempted' = Append(attempted, call)
                 /\ \/ /\ executed' = Append(executed, call)
                       /\ stdout' = Append(shown, Line("Success", <<>>))
                       /\ stmtIdx' = stmtIdx + 1
                       /\ UNCHANGED <<pc, raised>>
                    \/ /\ stdout' = Append(shown, Line("Error", <<>>))
                       /\ raised' = <<"execute">>
                       /\ pc' = "cursor_close"
                       /\ UNCHANGED <<executed, stmtIdx>>
          /\ UNCHANGED fileIdx
       \/ /\ stmtIdx > Len(statements)
          /\ fileIdx' = fileIdx + 1
          /\ pc' = "file"
          /\ UNCHANGED <<stdout, raised, executed, attempted, stmtIdx>>
    /\ UNCHANGED <<environment, session, cursor, exitStatus, config>>
    /\ UNCHANGED <<fs, replacements, folderIdx, sql_files, sql_content, statements>>
    /\ UNCHANGED validateVars

\* line 145: the success line, last statement of the try body.
deploy_success ==
    /\ pc = "success"
    /\ stdout' = Append(stdout, Line("deployment completed successfully", Upper(environment)))
    /\ pc' = "cursor_close"
    /\ UNCHANGED <<environment, session, cursor, raised, exitStatus, config>>
    /\ UNCHANGED deployVars /\ UNCHANGED validateVars

\* line 151: finally: cursor.close(); if it raises, line 153 is not reached.
deploy_cursor_close ==
    /\ pc = "cursor_close"
    /\ \/ cursor' = "closed" /\ pc' = "conn_close" /\ raised' = raised
       \/ cursor' = cursor /\ raised' = <<"cursor.close">> \o raised /\ pc' = "exit"
    /\ UNCHANGED <<environment, session, exitStatus, stdout, config>>
    /\ UNCHANGED deployVars /\ UNCHANGED validateVars

\* line 153: conn.close()
deploy_conn_close ==
    /\ pc = "conn_close"
    /\ session' = "closed"
    /\ pc' = "exit"
    /\ UNCHANGED <<environment, cursor, raised, exitStatus, stdout, config>>
    /\ UNCHANGED deployVars /\ UNCHANGED validateVars

\* lines 157-167: the invocation ends; an exception in flight ends the process
\* with status 1.
deploy_exit ==
    /\ pc = "exit"
    /\ exitStatus' = IF raised = <<>> THEN 0 ELSE 1
    /\ pc' = "done"
    /\ UNCHANGED <<environment, session, cursor, raised, stdout, config>>
    /\ UNCHANGED deployVars /\ UNCHANGED validateVars

DeployNext ==
    \/ deploy_load_config
    \/ deploy_connect
    \/ deploy_cursor
    \/ deploy_replacements
    \/ deploy_folder
    \/ deploy_file
    \/ execute_sql_file
    \/ deploy_success
    \/ deploy_cursor_close
    \/ deploy_conn_close
    \/ deploy_exit

DeploySpec == DeployInit /\ [][DeployNext]_vars


(***************************************************************************)
(* deploy.py: execute_sql_file on its own                                  *)
(*                                                                         *)
(* One call of execute_sql_file, on a file whose text is drawn from the    *)
(* texts made of a few parts (placeholder tokens of known keys, the token  *)
(* of an unknown key, a letter, a semicolon, a blank) and with the         *)
(* placeholder map of a configuration whose values may themselves hold a   *)
(* placeholder token.                                                      *)
(***************************************************************************)

MaxParts == 5

UNKNOWN_KEY == <<"X">>
Parts == { Token(DATABASE_NAME), Token(ROLE_NAME), Token(UNKNOWN_KEY),
           <<"a">>, <<";">>, <<" ">> }

\* The texts made of n parts, and the texts a file can hold.
RECURSIVE TextsOf(_)
TextsOf(n) ==
    IF n = 0 THEN {<<>>}
    ELSE {p \o t : p \in Parts, t \in TextsOf(n - 1)}
Texts == UNION {TextsOf(n) : n \in 0..MaxParts}

\* Complete configurations: the plain one, one whose database is the role
\* token and one whose role is the database token.
NestedConfigs ==
    { [database |-> Token(ROLE_NAME), warehouse |-> <<"W", "H">>, role |-> <<"R">>],
      [database |-> <<"P">>, warehouse |-> <<"W", "H">>, role |-> Token(DATABASE_NAME)] }
CompleteConfigs ==
    {doc \in ConfigDocs : {"database", "warehouse", "role"} \subseteq DOMAIN doc}
        \cup NestedConfigs

\* lines 105-113: the placeholder map of a configuration.
ReplacementsOf(doc) ==
    << [key |-> DATABASE_NAME, value |-> doc.database],
       [key |-> WAREHOUSE_NAME, value |-> doc.warehouse],
       [key |-> ROLE_NAME, value |-> doc.role] >>

\* The one file of the ddl folder.
ScriptName == <<"q">> \o SqlExt
ScriptTree(text) ==
    [folder \in Folders |->
        IF folder = deployment_order[1]
        THEN [exists |-> TRUE, entries |-> {File(ScriptName, text)}]
        ELSE DirAbsent]

\* deploy_environment('dev') about to call execute_sql_file on that file.
ExecuteInit ==
    /\ environment = <<"d", "e", "v">>
    /\ config \in CompleteConfigs
    /\ session = "open" /\ cursor = "open"
    /\ raised = <<>> /\ exitStatus = -1
    /\ \E text \in Texts : fs = ScriptTree(text)
    /\ replacements = ReplacementsOf(config)
    /\ folderIdx = 1
    /\ stdout = <<Line("Deploying", deployment_order[1])>>
    /\ sql_files = <<PathOf(environment, deployment_order[1], ScriptName)>>
    /\ fileIdx = 1
    /\ pc = "file"
    /\ sql_content = <<>> /\ statements = <<>> /\ stmtIdx = 0
    /\ executed = <<>> /\ attempted = <<>>
    /\ ValidateIdle

ExecuteNext ==
    \/ deploy_file
    \/ execute_sql_file

ExecuteSpec == ExecuteInit /\ [][ExecuteNext]_vars


(***************************************************************************)
(* Claims about deploy_environment                                         *)
(***************************************************************************)

Range(seq) == {seq[i] : i \in 1..Len(seq)}
IsPrefix(a, b) == Len(a) <= Len(b) /\ SubSeq(b, 1, Len(a)) = a

RECURSIVE Flatten(_)
Flatten(seqs) == IF seqs = <<>> THEN <<>> ELSE seqs[1] \o Flatten(Tail(seqs))

\* The fixed sequence the specification names.
FixedSequence ==
    << <<"d", "d", "l">>,
       <<"s", "t", "o", "r", "e", "d", "_", "p", "r", "o", "c", "e", "d", "u", "r", "e", "s">>,
       <<"t", "a", "s", "k", "s">>,
       <<"r", "b", "a", "c">> >>
FolderRank(folder) == CHOOSE i \in 1..Len(FixedSequence) : FixedSequence[i] = folder

\* The paths of a set of directory entries, in lexical order.
LexicalPaths(folder, entries) ==
    LET paths == {PathOf(environment, folder, e.name) : e \in entries}
    IN  CHOOSE l \in Listings(paths) : \A i, j \in 1..Len(l) : i < j => StrLess(l[i], l[j])

\* The statements of one file as Call records, in source order.
FileCalls(folder, path) ==
    LET stmts == SplitStatements(
                     Substitute(ReadFile(fs, environment, path),
                                << [key |-> DATABASE_NAME, value |-> config.database],
                                   [key |-> WAREHOUSE_NAME, value |-> config.warehouse],
                                   [key |-> ROLE_NAME, value |-> config.role] >>))
    IN  [i \in 1..Len(stmts) |-> Call(folder, path, stmts[i])]

\* The total execution order over the files Chosen(folder) selects: folder
\* order, then lexical path order, then source order.
ExpectedCalls(Chosen(_)) ==
    Flatten([k \in 1..Len(FixedSequence) |->
        LET folder == FixedSequence[k]
            paths == IF fs[folder].exists
                     THEN LexicalPaths(folder, Chosen(folder)) ELSE <<>>
        IN  Flatten([i \in 1..Len(paths) |-> FileCalls(folder, paths[i])])])

SqlFiles(folder) == {e \in fs[folder].entries : EndsWith(e.name, SqlExt)}
VisibleSqlFiles(folder) == {e \in SqlFiles(folder) : e.name[1] # "."}

ConfigComplete == {"database", "warehouse", "role"} \subseteq DOMAIN config
Succeeded == pc = "done" /\ exitStatus = 0
StatementFailed == Len(attempted) > Len(executed)
SuccessLine == Line("deployment completed successfully", Upper(environment))

\* C1: once connect_snowflake has returned a session, the session has been
\* closed when the invocation ends, on every exit path.
C1_SessionClosedOnEveryExit == pc = "done" => session # "open"

\* C2: once cursor.execute has raised on a statement, no further statement is
\* handed to the cursor, and the invocation ends with that error propagating
\* (non-zero status) and without the success line.
C2_FailFast ==
    /\ [][StatementFailed => attempted' = attempted /\ executed' = executed]_vars
    /\ [](StatementFailed /\ pc = "done" =>
              /\ "execute" \in Range(raised)
              /\ exitStatus # 0
              /\ SuccessLine \notin Range(stdout))

\* C2 witness: a run ended by a failing statement, after some statements were
\* applied and with statements still to come.
C2_Witness ==
    /\ pc = "done" /\ StatementFailed /\ executed # <<>>
    /\ Len(attempted) < Len(ExpectedCalls(VisibleSqlFiles))

\* C3: of two statements from different folders, the one whose folder comes
\* first in [ddl, stored_procedures, tasks, rbac] is executed first.
C3_FolderOrder ==
    \A i, j \in 1..Len(attempted) :
        (i < j /\ attempted[i].folder # attempted[j].folder)
            => FolderRank(attempted[i].folder) < FolderRank(attempted[j].folder)

\* C3 witness: a finished deployment that executed statements of rbac and ddl.
C3_Witness ==
    /\ pc = "done"
    /\ \E i, j \in 1..Len(executed) :
          executed[i].folder = FixedSequence[1] /\ executed[j].folder = FixedSequence[4]

\* The files of a folder that some attempted statement came from.
TouchedFiles(folder) ==
    {e \in fs[folder].entries :
        \E i \in 1..Len(attempted) :
            attempted[i].path = PathOf(environment, folder, e.name)}

\* Files run in lexical path order within a folder, and each file's statements
\* run in source order, once each, before any statement of the next file.
InFileAndSourceOrder == IsPrefix(attempted, ExpectedCalls(TouchedFiles))

\* C4 as stated: the statements run in lexical path and source order, and a
\* successful deployment has executed every statement of every .sql file of
\* every existing recognised folder exactly once.
C4_EverySqlFile ==
    ConfigComplete =>
        /\ InFileAndSourceOrder
        /\ Succeeded => executed = ExpectedCalls(SqlFiles)

\* C4 amended: the same, over the .sql files whose name does not begin with
\* a dot (the files the pattern *.sql matches).
C4_EveryMatchedSqlFile ==
    ConfigComplete =>
        /\ InFileAndSourceOrder
        /\ IsPrefix(attempted, ExpectedCalls(VisibleSqlFiles))
        /\ Succeeded => executed = ExpectedCalls(VisibleSqlFiles)

\* C4 witness: a successful deployment of a folder holding two .sql files of
\* several statements each, beside a folder holding a dot-file.
C4_Witness ==
    /\ Succeeded
    /\ fs[FixedSequence[1]] = DirInit /\ fs[FixedSequence[3]] = DirMixed
    /\ Len(executed) = 7


(***************************************************************************)
(* data_quality_validator.py: rule documents and query results             *)
(***************************************************************************)

\* The largest count a query returns in the model.
MaxCount == 2

\* config/data_quality_rules.yml as yaml.safe_load returns it.
ColumnRule(table, columns) == [table |-> table, columns |-> columns]
CountRule(table, min_count) == [table |-> table, min_count |-> min_count]

\* All three kinds, several rules and columns.
RulesFull ==
    [data_quality_checks |->
        [null_checks |-> << ColumnRule("t1", <<"a", "b">>) >>,
         unique_checks |-> << ColumnRule("t1", <<"a">>), ColumnRule("t2", <<"b">>) >>,
         count_checks |-> << CountRule("t1", 1) >>]]
\* Only count checks (the other kinds are absent keys), over every min_count.
RulesCounts(m) ==
    [data_quality_checks |->
        [count_checks |-> << CountRule("t1", m), CountRule("t2", 1) >>]]
\* No checks at all, and a rule with an empty column list.
RulesEmpty ==
    [data_quality_checks |->
        [null_checks |-> << ColumnRule("t1", <<>>) >>,
         unique_checks |-> <<>>,
         count_checks |-> <<>>]]
\* Malformed documents: no `data_quality_checks`; a null rule without
\* `columns` after a good one; a unique rule without `table`; a count rule
\* without `min_count`.
RulesNoChecks == [version |-> 1]
RulesBadNull ==
    [data_quality_checks |->
        [null_checks |-> << ColumnRule("t1", <<"a">>), [table |-> "t2"] >>,
         count_checks |-> << CountRule("t1", 1) >>]]
RulesBadUnique ==
    [data_quality_checks |->
        [null_checks |-> << ColumnRule("t2", <<"a">>) >>,
         unique_checks |-> << [columns |-> <<"a">>] >>]]
RulesBadCount ==
    [data_quality_checks |->
        [count_checks |-> << CountRule("t1", 0), [table |-> "t2"] >>]]

RuleDocs ==
    {RulesFull, RulesEmpty, RulesNoChecks, RulesBadNull, RulesBadUnique, RulesBadCount}
        \cup {RulesCounts(m) : m \in 0..MaxCount}

\* checks.get(kind, [])
Get(d, kind) == IF kind \in DOMAIN d THEN d[kind] ELSE <<>>

\* cursor.fetchone(): None (no row) or one row of counts.
NoRow == <<>>
NullRows == {NoRow} \cup {<<n>> : n \in 0..MaxCount}
\* COUNT(DISTINCT column) never exceeds COUNT(*).
UniqueRows ==
    {NoRow} \cup {row \in (0..MaxCount) \X (0..MaxCount) : row[2] <= row[1]}
CountRows == {NoRow} \cup {<<n>> : n \in 0..MaxCount}

\* A missing row read as one.
FieldNoRowAsOne(result, i) == IF result # NoRow THEN result[i] ELSE 1

\* result[i] if result else 0
Field(result, i) == IF result # NoRow THEN result[i] ELSE 0

\* The threshold off by one.
NullFailsAboveOne(null_count) == null_count > 1

\* if null_count > 0
NullFails(null_count) == null_count > 0
\* if total_count != unique_count
UniqueFails(total_count, unique_count) == total_count # unique_count
\* The operands swapped.
DuplicatesSwapped(total_count, unique_count) == unique_count - total_count

\* duplicates = total_count - unique_count
Duplicates(total_count, unique_count) == total_count - unique_count
\* The boundary made exclusive.
CountFailsAtBoundary(actual_count, min_count) == actual_count <= min_count

\* if actual_count < min_count
CountFails(actual_count, min_count) == actual_count < min_count

\* One outcome line: the message, the table (and column) it names and the
\* numbers it embeds.
Outcome(tag, subject, nums) == [tag |-> tag, subject |-> subject, nums |-> nums]

NullFailure(table, column, null_count) ==
    Outcome("FAIL NULL values found", <<table, column>>, <<null_count>>)
NullPass(table, column) == Outcome("PASS No NULL values", <<table, column>>, <<>>)
UniqueFailure(table, column, duplicates) ==
    Outcome("FAIL duplicate values found", <<table, column>>, <<duplicates>>)
UniquePass(table, column) == Outcome("PASS All values are unique", <<table, column>>, <<>>)
CountFailure(table, actual_count, min_count) ==
    Outcome("FAIL rows (minimum required)", <<table>>, <<actual_count, min_count>>)
CountPass(table, actual_count) ==
    Outcome("PASS rows (meets minimum requirement)", <<table>>, <<actual_count>>)
Notice(tag) == Outcome(tag, <<>>, <<>>)

\* One call on the cursor: the check it serves, the query's parameters, whether
\* execute and fetchone returned, and the row fetched.
Query(kind, rule, col, db, table, column, ok, row) ==
    [kind |-> kind, rule |-> rule, col |-> col, database |-> db,
     table |-> table, column |-> column, ok |-> ok, row |-> row]

\* The new failures put in front of the accumulated ones.
ExtendInFront(all, failed) == failed \o all

\* all_failed_checks.extend(...)
Extend(all, failed) == all \o failed

ValidateInit ==
    /\ Start
    /\ DeployIdle
    /\ ValidateIdle


(***************************************************************************)
(* data_quality_validator.py: validate_data_quality                        *)
(***************************************************************************)

\* line 209: config = load_config(environment)
validate_load_config ==
    /\ pc = "load_config"
    /\ \/ \E doc \in ConfigDocs : config' = doc /\ pc' = "load_rules" /\ raised' = raised
       \/ config' = config /\ raised' = <<"load_config">> /\ pc' = "exit"
    /\ UNCHANGED <<environment, session, cursor, exitStatus, stdout>>
    /\ UNCHANGED deployVars /\ UNCHANGED validateVars

\* line 211: rules = load_data_quality_rules()
validate_load_rules ==
    /\ pc = "load_rules"
    /\ \/ \E doc \in RuleDocs : rules' = doc /\ pc' = "connect" /\ raised' = raised
       \/ rules' = rules /\ raised' = <<"load_data_quality_rules">> /\ pc' = "exit"
    /\ UNCHANGED <<environment, session, cursor, exitStatus, stdout, config>>
    /\ UNCHANGED <<database, checks, ruleIdx, colIdx, failed_checks,
                   all_failed_checks, queries>>
    /\ UNCHANGED deployVars

\* line 213: conn = connect_snowflake()
validate_connect ==
    /\ pc = "connect"
    /\ \/ session' = "open" /\ pc' = "cursor" /\ raised' = raised
       \/ session' = session /\ raised' = <<"connect">> /\ pc' = "exit"
    /\ UNCHANGED <<environment, cursor, exitStatus, stdout, config>>
    /\ UNCHANGED deployVars /\ UNCHANGED validateVars

\* lines 215-219: cursor = conn.cursor(), before the try statement is entered,
\* and all_failed_checks = [].
validate_cursor ==
    /\ pc = "cursor"
    /\ \/ cursor' = "open" /\ pc' = "lookup" /\ raised' = raised
       \/ cursor' = cursor /\ raised' = <<"cursor">> /\ pc' = "exit"
    /\ UNCHANGED <<environment, session, exitStatus, stdout, config>>
    /\ UNCHANGED deployVars /\ UNCHANGED validateVars

\* lines 225-233 and 55-57: the two key lookups of the try body, then the call
\* of run_null_checks up to its loop.
validate_lookup ==
    /\ pc = "lookup"
    /\ IF "database" \in DOMAIN config /\ "data_quality_checks" \in DOMAIN rules
       THEN /\ database' = config.database
            /\ checks' = rules.data_quality_checks
            /\ stdout' = Append(stdout, Notice("Running NULL checks"))
            /\ failed_checks' = <<>>
            /\ ruleIdx' = 1
            /\ colIdx' = 0
            /\ pc' = "null"
            /\ raised' = raised
       ELSE /\ raised' = <<"KeyError">>
            /\ pc' = "cursor_close"
            /\ database' = IF "database" \in DOMAIN config THEN config.database
                           ELSE database
            /\ UNCHANGED <<checks, stdout, failed_checks, ruleIdx, colIdx>>
    /\ UNCHANGED <<environment, session, cursor, exitStatus, config>>
    /\ UNCHANGED <<rules, all_failed_checks, queries>>
    /\ UNCHANGED deployVars

\* run_null_checks leaving its loops at the first failing check.
run_null_checks_stop ==
    /\ pc = "null"
    /\ LET list == Get(checks, "null_checks") IN
       \/ \* table = check['table']; columns = check['columns']
          /\ ruleIdx <= Len(list) /\ colIdx = 0
          /\ {"table", "columns"} \subseteq DOMAIN list[ruleIdx]
          /\ colIdx' = 1
          /\ UNCHANGED <<pc, raised, stdout, ruleIdx, failed_checks,
                         all_failed_checks, queries>>
       \/ \* a rule record without `table` or `columns`: KeyError
          /\ ruleIdx <= Len(list) /\ colIdx = 0
          /\ ~({"table", "columns"} \subseteq DOMAIN list[ruleIdx])
          /\ raised' = <<"KeyError">>
          /\ pc' = "cursor_close"
          /\ UNCHANGED <<stdout, ruleIdx, colIdx, failed_checks,
                         all_failed_checks, queries>>
       \/ \* one column: the query returns a row (or none) and is judged
          /\ ruleIdx <= Len(list) /\ colIdx >= 1
          /\ colIdx <= Len(list[ruleIdx].columns)
          /\ \E result \in NullRows :
                LET table == list[ruleIdx].table
                    column == list[ruleIdx].columns[colIdx]
                    null_count == Field(result, 1)
                IN  /\ queries' = Append(queries,
                           Query("null", ruleIdx, colIdx, database, table, column,
                                 TRUE, result))
                    /\ IF NullFails(null_count)
                       THEN /\ failed_checks' =
                                 Append(failed_checks, NullFailure(table, column, null_count))
                            /\ ruleIdx' = Len(list) + 1
                            /\ colIdx' = 0
                            /\ UNCHANGED stdout
                       ELSE /\ stdout' = Append(stdout, NullPass(table, column))
                            /\ colIdx' = colIdx + 1
                            /\ UNCHANGED <<failed_checks, ruleIdx>>
          /\ UNCHANGED <<pc, raised, all_failed_checks>>
       \/ \* one column: cursor.execute or cursor.fetchone raises
          /\ ruleIdx <= Len(list) /\ colIdx >= 1
          /\ colIdx <= Len(list[ruleIdx].columns)
          /\ queries' = Append(queries,
                 Query("null", ruleIdx, colIdx, database, list[ruleIdx].table,
                       list[ruleIdx].columns[colIdx], FALSE, NoRow))
          /\ raised' = <<"query">>
          /\ pc' = "cursor_close"
          /\ UNCHANGED <<stdout, ruleIdx, colIdx, failed_checks, all_failed_checks>>
       \/ \* the rule's columns are exhausted: next rule
          /\ ruleIdx <= Len(list) /\ colIdx >= 1
          /\ colIdx > Len(list[ruleIdx].columns)
          /\ ruleIdx' = ruleIdx + 1
          /\ colIdx' = 0
          /\ UNCHANGED <<pc, raised, stdout, failed_checks, all_failed_checks, queries>>
       \/ \* return failed_checks; the caller extends its list and starts the
          \* next pass
          /\ ruleIdx > Len(list)
          /\ all_failed_checks' = Extend(all_failed_checks, failed_checks)
          /\ failed_checks' = <<>>
          /\ stdout' = Append(stdout, Notice("Running UNIQUE checks"))
          /\ ruleIdx' = 1
          /\ colIdx' = 0
          /\ pc' = "unique"
          /\ UNCHANGED <<raised, queries>>
    /\ UNCHANGED <<environment, session, cursor, exitStatus, config>>
    /\ UNCHANGED <<rules, database, checks>>
    /\ UNCHANGED deployVars

\* lines 61-101 and 233-235: run_null_checks, one step of its loops at a time.
run_null_checks ==
    /\ pc = "null"
    /\ LET list == Get(checks, "null_checks") IN
       \/ \* table = check['table']; columns = check['columns']
          /\ ruleIdx <= Len(list) /\ colIdx = 0
          /\ {"table", "columns"} \subseteq DOMAIN list[ruleIdx]
          /\ colIdx' = 1
          /\ UNCHANGED <<pc, raised, stdout, ruleIdx, failed_checks,
                         all_failed_checks, queries>>
       \/ \* a rule record without `table` or `columns`: KeyError
          /\ ruleIdx <= Len(list) /\ colIdx = 0
          /\ ~({"table", "columns"} \subseteq DOMAIN list[ruleIdx])
          /\ raised' = <<"KeyError">>
          /\ pc' = "cursor_close"
          /\ UNCHANGED <<stdout, ruleIdx, colIdx, failed_checks,
                         all_failed_checks, queries>>
       \/ \* one column: the query returns a row (or none) and is judged
          /\ ruleIdx <= Len(list) /\ colIdx >= 1
          /\ colIdx <= Len(list[ruleIdx].columns)
          /\ \E result \in NullRows :
                LET table == list[ruleIdx].table
                    column == list[ruleIdx].columns[colIdx]
                    null_count == Field(result, 1)
                IN  /\ queries' = Append(queries,
                           Query("null", ruleIdx, colIdx, database, table, column,
                                 TRUE, result))
                    /\ IF NullFails(null_count)
                       THEN /\ failed_checks' =
                                 Append(failed_checks, NullFailure(table, column, null_count))
                            /\ UNCHANGED stdout
                       ELSE /\ stdout' = Append(stdout, NullPass(table, column))
                            /\ UNCHANGED failed_checks
          /\ colIdx' = colIdx + 1
          /\ UNCHANGED <<pc, raised, ruleIdx, all_failed_checks>>
       \/ \* one column: cursor.execute or cursor.fetchone raises
          /\ ruleIdx <= Len(list) /\ colIdx >= 1
          /\ colIdx <= Len(list[ruleIdx].columns)
          /\ queries' = Append(queries,
                 Query("null", ruleIdx, colIdx, database, list[ruleIdx].table,
                       list[ruleIdx].columns[colIdx], FALSE, NoRow))
          /\ raised' = <<"query">>
          /\ pc' = "cursor_close"
          /\ UNCHANGED <<stdout, ruleIdx, colIdx, failed_checks, all_failed_checks>>
       \/ \* the rule's columns are exhausted: next rule
          /\ ruleIdx <= Len(list) /\ colIdx >= 1
          /\ colIdx > Len(list[ruleIdx].columns)
          /\ ruleIdx' = ruleIdx + 1
          /\ colIdx' = 0
          /\ UNCHANGED <<pc, raised, stdout, failed_checks, all_failed_checks, queries>>
       \/ \* return failed_checks; the caller extends its list and starts the
          \* next pass
          /\ ruleIdx > Len(list)
          /\ all_failed_checks' = Extend(all_failed_checks, failed_checks)
          /\ failed_checks' = <<>>
          /\ stdout' = Append(stdout, Notice("Running UNIQUE checks"))
          /\ ruleIdx' = 1
          /\ colIdx' = 0
          /\ pc' = "unique"
          /\ UNCHANGED <<raised, queries>>
    /\ UNCHANGED <<environment, session, cursor, exitStatus, config>>
    /\ UNCHANGED <<rules, database, checks>>
    /\ UNCHANGED deployVars

\* lines 115-159 and 235-237: run_unique_checks, one step of its loops at a time.
run_unique_checks ==
    /\ pc = "unique"
    /\ LET list == Get(checks, "unique_checks") IN
       \/ \* table = check['table']; columns = check['columns']
          /\ ruleIdx <= Len(list) /\ colIdx = 0
          /\ {"table", "columns"} \subseteq DOMAIN list[ruleIdx]
          /\ colIdx' = 1
          /\ UNCHANGED <<pc, raised, stdout, ruleIdx, failed_checks,
                         all_failed_checks, queries>>
       \/ \* a rule record without `table` or `columns`: KeyError
          /\ ruleIdx <= Len(list) /\ colIdx = 0
          /\ ~({"table", "columns"} \subseteq DOMAIN list[ruleIdx])
          /\ raised' = <<"KeyError">>
          /\ pc' = "cursor_close"
          /\ UNCHANGED <<stdout, ruleIdx, colIdx, failed_checks,
                         all_failed_checks, queries>>
       \/ \* one column: the query returns a row (or none) and is judged
          /\ ruleIdx <= Len(list) /\ colIdx >= 1
          /\ colIdx <= Len(list[ruleIdx].columns)
          /\ \E result \in UniqueRows :
                LET table == list[ruleIdx].table
                    column == list[ruleIdx].columns[colIdx]
                    total_count == Field(result, 1)
                    unique_count == Field(result, 2)
                IN  /\ queries' = Append(queries,
                           Query("unique", ruleIdx, colIdx, database, table, column,
                                 TRUE, result))
                    /\ IF UniqueFails(total_count, unique_count)
                       THEN /\ failed_checks' =
                                 Append(failed_checks,
                                        UniqueFailure(table, column,
                                                      Duplicates(total_count, unique_count)))
                            /\ UNCHANGED stdout
                       ELSE /\ stdout' = Append(stdout, UniquePass(table, column))
                            /\ UNCHANGED failed_checks
          /\ colIdx' = colIdx + 1
          /\ UNCHANGED <<pc, raised, ruleIdx, all_failed_checks>>
       \/ \* one column: cursor.execute or cursor.fetchone raises
          /\ ruleIdx <= Len(list) /\ colIdx >= 1
          /\ colIdx <= Len(list[ruleIdx].columns)
          /\ queries' = Append(queries,
                 Query("unique", ruleIdx, colIdx, database, list[ruleIdx].table,
                       list[ruleIdx].columns[colIdx], FALSE, NoRow))
          /\ raised' = <<"query">>
          /\ pc' = "cursor_close"
          /\ UNCHANGED <<stdout, ruleIdx, colIdx, failed_checks, all_failed_checks>>
       \/ \* the rule's columns are exhausted: next rule
          /\ ruleIdx <= Len(list) /\ colIdx >= 1
          /\ colIdx > Len(list[ruleIdx].columns)
          /\ ruleIdx' = ruleIdx + 1
          /\ colIdx' = 0
          /\ UNCHANGED <<pc, raised, stdout, failed_checks, all_failed_checks, queries>>
       \/ \* return failed_checks; the caller extends its list and starts the
          \* next pass
          /\ ruleIdx > Len(list)
          /\ all_failed_checks' = Extend(all_failed_checks, failed_checks)
          /\ failed_checks' = <<>>
          /\ stdout' = Append(stdout, Notice("Running COUNT checks"))
          /\ ruleIdx' = 1
          /\ colIdx' = 0
          /\ pc' = "count"
          /\ UNCHANGED <<raised, queries>>
    /\ UNCHANGED <<environment, session, cursor, exitStatus, config>>
    /\ UNCHANGED <<rules, database, checks>>
    /\ UNCHANGED deployVars

\* run_count_checks leaving its loop at the first failing rule.
run_count_checks_stop ==
    /\ pc = "count"
    /\ LET list == Get(checks, "count_checks") IN
       \/ \* a rule record without `table` or `min_count`: KeyError
          /\ ruleIdx <= Len(list)
          /\ ~({"table", "min_count"} \subseteq DOMAIN list[ruleIdx])
          /\ raised' = <<"KeyError">>
          /\ pc' = "cursor_close"
          /\ UNCHANGED <<stdout, ruleIdx, failed_checks, all_failed_checks, queries>>
       \/ \* one rule: the query returns a row (or none) and is judged
          /\ ruleIdx <= Len(list)
          /\ {"table", "min_count"} \subseteq DOMAIN list[ruleIdx]
          /\ \E result \in CountRows :
                LET table == list[ruleIdx].table
                    min_count == list[ruleIdx].min_count
                    actual_count == Field(result, 1)
                IN  /\ queries' = Append(queries,
                           Query("count", ruleIdx, 0, database, table, "*", TRUE, result))
                    /\ IF CountFails(actual_count, min_count)
                       THEN /\ failed_checks' =
                                 Append(failed_checks,
                                        CountFailure(table, actual_count, min_count))
                            /\ UNCHANGED stdout
                            /\ ruleIdx' = Len(list) + 1
                       ELSE /\ stdout' = Append(stdout, CountPass(table, actual_count))
                            /\ ruleIdx' = ruleIdx + 1
                            /\ UNCHANGED failed_checks
          /\ UNCHANGED <<pc, raised, all_failed_checks>>
       \/ \* one rule: cursor.execute or cursor.fetchone raises
          /\ ruleIdx <= Len(list)
          /\ {"table", "min_count"} \subseteq DOMAIN list[ruleIdx]
          /\ queries' = Append(queries,
                 Query("count", ruleIdx, 0, database, list[ruleIdx].table, "*",
                       FALSE, NoRow))
          /\ raised' = <<"query">>
          /\ pc' = "cursor_close"
          /\ UNCHANGED <<stdout, ruleIdx, failed_checks, all_failed_checks>>
       \/ \* return failed_checks; the caller extends its list
          /\ ruleIdx > Len(list)
          /\ all_failed_checks' = Extend(all_failed_checks, failed_checks)
          /\ failed_checks' = <<>>
          /\ pc' = "report"
          /\ UNCHANGED <<raised, stdout, ruleIdx, queries>>
    /\ UNCHANGED <<environment, session, cursor, exitStatus, config>>
    /\ UNCHANGED <<rules, database, checks, colIdx>>
    /\ UNCHANGED deployVars

\* lines 173-201 and 237: run_count_checks, one rule at a time.
run_count_checks ==
    /\ pc = "count"
    /\ LET list == Get(checks, "count_checks") IN
       \/ \* a rule record without `table` or `min_count`: KeyError
          /\ ruleIdx <= Len(list)
          /\ ~({"table", "min_count"} \subseteq DOMAIN list[ruleIdx])
          /\ raised' = <<"KeyError">>
          /\ pc' = "cursor_close"
          /\ UNCHANGED <<stdout, ruleIdx, failed_checks, all_failed_checks, queries>>
       \/ \* one rule: the query returns a row (or none) and is judged
          /\ ruleIdx <= Len(list)
          /\ {"table", "min_count"} \subseteq DOMAIN list[ruleIdx]
          /\ \E result \in CountRows :
                LET table == list[ruleIdx].table
                    min_count == list[ruleIdx].min_count
                    actual_count == Field(result, 1)
                IN  /\ queries' = Append(queries,
                           Query("count", ruleIdx, 0, database, table, "*", TRUE, result))
                    /\ IF CountFails(actual_count, min_count)
                       THEN /\ failed_checks' =
                                 Append(failed_checks,
                                        CountFailure(table, actual_count, min_count))
                            /\ UNCHANGED stdout
                       ELSE /\ stdout' = Append(stdout, CountPass(table, actual_count))
                            /\ UNCHANGED failed_checks
          /\ ruleIdx' = ruleIdx + 1
          /\ UNCHANGED <<pc, raised, all_failed_checks>>
       \/ \* one rule: cursor.execute or cursor.fetchone raises
          /\ ruleIdx <= Len(list)
          /\ {"table", "min_count"} \subseteq DOMAIN list[ruleIdx]
          /\ queries' = Append(queries,
                 Query("count", ruleIdx, 0, database, list[ruleIdx].table, "*",
                       FALSE, NoRow))
          /\ raised' = <<"query">>
          /\ pc' = "cursor_close"
          /\ UNCHANGED <<stdout, ruleIdx, failed_checks, all_failed_checks>>
       \/ \* return failed_checks; the caller extends its list
          /\ ruleIdx > Len(list)
          /\ all_failed_checks' = Extend(all_failed_checks, failed_checks)
          /\ failed_checks' = <<>>
          /\ pc' = "report"
          /\ UNCHANGED <<raised, stdout, ruleIdx, queries>>
    /\ UNCHANGED <<environment, session, cursor, exitStatus, config>>
    /\ UNCHANGED <<rules, database, checks, colIdx>>
    /\ UNCHANGED deployVars

\* validate_report without the exit(1).
validate_report_no_exit ==
    /\ pc = "report"
    /\ IF all_failed_checks # <<>>
       THEN /\ stdout' = Append(stdout, Notice("Data Quality Validation FAILED"))
                             \o all_failed_checks
            /\ raised' = raised
       ELSE /\ stdout' = Append(stdout, Outcome("All data quality checks passed",
                                                <<Upper(environment)>>, <<>>))
            /\ raised' = raised
    /\ pc' = "cursor_close"
    /\ UNCHANGED <<environment, session, cursor, exitStatus, config>>
    /\ UNCHANGED deployVars /\ UNCHANGED validateVars

\* lines 243-255: report the failures and exit(1), or report success.
validate_report ==
    /\ pc = "report"
    /\ IF all_failed_checks # <<>>
       THEN /\ stdout' = Append(stdout, Notice("Data Quality Validation FAILED"))
                             \o all_failed_checks
            /\ raised' = <<"SystemExit">>
       ELSE /\ stdout' = Append(stdout, Outcome("All data quality checks passed",
                                                <<Upper(environment)>>, <<>>))
            /\ raised' = raised
    /\ pc' = "cursor_close"
    /\ UNCHANGED <<environment, session, cursor, exitStatus, config>>
    /\ UNCHANGED deployVars /\ UNCHANGED validateVars

\* line 261: finally: cursor.close(); if it raises, line 263 is not reached.
validate_cursor_close ==
    /\ pc = "cursor_close"
    /\ \/ cursor' = "closed" /\ pc' = "conn_close" /\ raised' = raised
       \/ cursor' = cursor /\ raised' = <<"cursor.close">> \o raised /\ pc' = "exit"
    /\ UNCHANGED <<environment, session, exitStatus, stdout, config>>
    /\ UNCHANGED deployVars /\ UNCHANGED validateVars

\* line 263: conn.close()
validate_conn_close ==
    /\ pc = "conn_close"
    /\ session' = "closed"
    /\ pc' = "exit"
    /\ UNCHANGED <<environment, cursor, raised, exitStatus, stdout, config>>
    /\ UNCHANGED deployVars /\ UNCHANGED validateVars

\* lines 267-277: the invocation ends; exit(1) and any other exception in
\* flight end the process with status 1.
validate_exit ==
    /\ pc = "exit"
    /\ exitStatus' = IF raised = <<>> THEN 0 ELSE 1
    /\ pc' = "done"
    /\ UNCHANGED <<environment, session, cursor, raised, stdout, config>>
    /\ UNCHANGED deployVars /\ UNCHANGED validateVars

ValidateNext ==
    \/ validate_load_config
    \/ validate_load_rules
    \/ validate_connect
    \/ validate_cursor
    \/ validate_lookup
    \/ run_null_checks
    \/ run_unique_checks
    \/ run_count_checks
    \/ validate_report
    \/ validate_cursor_close
    \/ validate_conn_close
    \/ validate_exit

ValidateSpec == ValidateInit /\ [][ValidateNext]_vars


(***************************************************************************)
(* Claims about validate_data_quality                                      *)
(***************************************************************************)

KindOrder == <<"null", "unique", "count">>

\* Every rule record of the loaded rule set has the keys its kind needs.
WellFormed ==
    /\ \A k \in {"null_checks", "unique_checks"} :
          \A r \in 1..Len(Get(checks, k)) :
              {"table", "columns"} \subseteq DOMAIN Get(checks, k)[r]
    /\ \A r \in 1..Len(Get(checks, "count_checks")) :
          {"table", "min_count"} \subseteq DOMAIN Get(checks, "count_checks")[r]

CheckKey(kind, rule, col, table, column) ==
    [kind |-> kind, rule |-> rule, col |-> col, table |-> table, column |-> column]
KeyOf(q) == CheckKey(q.kind, q.rule, q.col, q.table, q.column)
Keys(qs) == [i \in 1..Len(qs) |-> KeyOf(qs[i])]

ColumnKeys(kind, list) ==
    Flatten([r \in 1..Len(list) |->
        [c \in 1..Len(list[r].columns) |->
            CheckKey(kind, r, c, list[r].table, list[r].columns[c])]])

\* Every check of the rule set: null pairs, unique pairs, count tables, each
\* kind in rule order and then column order.
ExpectedKeys ==
    ColumnKeys("null", Get(checks, "null_checks"))
        \o ColumnKeys("unique", Get(checks, "unique_checks"))
        \o [r \in 1..Len(Get(checks, "count_checks")) |->
               CheckKey("count", r, 0, Get(checks, "count_checks")[r].table, "*")]

\* The count a query returned; a query that returned no row counts as 0.
Returned(q, i) == IF q.row = <<>> THEN 0 ELSE q.row[i]
MinCountOf(q) == Get(checks, "count_checks")[q.rule].min_count

\* When a check fails, and the description of its failure, as claimed.
ClaimedToFail(q) ==
    CASE q.kind = "null" -> Returned(q, 1) > 0
      [] q.kind = "unique" -> Returned(q, 1) # Returned(q, 2)
      [] q.kind = "count" -> Returned(q, 1) < MinCountOf(q)
ClaimedFailure(q) ==
    CASE q.kind = "null" -> NullFailure(q.table, q.column, Returned(q, 1))
      [] q.kind = "unique" ->
            UniqueFailure(q.table, q.column, Returned(q, 1) - Returned(q, 2))
      [] q.kind = "count" -> CountFailure(q.table, Returned(q, 1), MinCountOf(q))
ClaimedPass(q) ==
    CASE q.kind = "null" -> NullPass(q.table, q.column)
      [] q.kind = "unique" -> UniquePass(q.table, q.column)
      [] q.kind = "count" -> CountPass(q.table, Returned(q, 1))

Answered(kind) == SelectSeq(queries, LAMBDA q : q.kind = kind /\ q.ok)
ClaimedFailures(qs) ==
    LET failing == SelectSeq(qs, ClaimedToFail)
    IN  [i \in 1..Len(failing) |-> ClaimedFailure(failing[i])]
ClaimedPasses(qs) ==
    LET passing == SelectSeq(qs, LAMBDA q : ~ClaimedToFail(q))
    IN  [i \in 1..Len(passing) |-> ClaimedPass(passing[i])]

FailureTag == [kind \in Range(KindOrder) |->
    CASE kind = "null" -> "FAIL NULL values found"
      [] kind = "unique" -> "FAIL duplicate values found"
      [] kind = "count" -> "FAIL rows (minimum required)"]
PassTag == [kind \in Range(KindOrder) |->
    CASE kind = "null" -> "PASS No NULL values"
      [] kind = "unique" -> "PASS All values are unique"
      [] kind = "count" -> "PASS rows (meets minimum requirement)"]
KindOfFailure(d) == CHOOSE kind \in Range(KindOrder) : FailureTag[kind] = d.tag
KindRank(kind) == CHOOSE i \in 1..Len(KindOrder) : KindOrder[i] = kind

\* The failures collected so far, and the pass lines printed so far, of a kind.
FailuresSoFar(kind) ==
    SelectSeq(all_failed_checks \o failed_checks, LAMBDA d : d.tag = FailureTag[kind])
PassesSoFar(kind) == SelectSeq(stdout, LAMBDA d : d.tag = PassTag[kind])

SuccessNotice == Outcome("All data quality checks passed", <<Upper(environment)>>, <<>>)
\* The three passes are over: the report is due or made.
ChecksDone ==
    \/ pc = "report"
    \/ "SystemExit" \in Range(raised)
    \/ SuccessNotice \in Range(stdout)
Ended == pc \in {"cursor_close", "conn_close", "exit", "done"}

\* C5: a failing check never stops validation: the checks are queried in rule
\* set order, none skipped and none twice, whatever failed before; the overall
\* outcome is decided only when every check of the rule set has been queried
\* once; and a run ends short of that only by raising.
C5_AllChecksRun ==
    WellFormed =>
        /\ IsPrefix(Keys(queries), ExpectedKeys)
        /\ ChecksDone => Keys(queries) = ExpectedKeys
        /\ (Ended /\ Keys(queries) # ExpectedKeys) =>
               (raised # <<>> /\ "SystemExit" \notin Range(raised))

\* C5 witness: a finished run whose first check failed and that queried all
\* five checks of the full rule set.
C5_Witness ==
    /\ pc = "done" /\ rules = RulesFull
    /\ Len(queries) = 5 /\ ClaimedToFail(queries[1])
    /\ Len(all_failed_checks) >= 3

\* C6: when the report is due, the failure list holds exactly one entry per
\* failing check and none for a passing check, null failures first, then
\* unique, then count, each kind in rule order and then column order.
C6_FailureList ==
    ChecksDone =>
        /\ Keys(queries) = ExpectedKeys
        /\ all_failed_checks = ClaimedFailures(queries)
        /\ \A i, j \in 1..Len(all_failed_checks) :
              i < j => KindRank(KindOfFailure(all_failed_checks[i]))
                           <= KindRank(KindOfFailure(all_failed_checks[j]))

\* C6 witness: one failing null check, one failing count check and every
\* unique check passing give two entries, null then count.
C6_Witness ==
    /\ pc = "done" /\ rules = RulesFull /\ Len(queries) = 5
    /\ Len(all_failed_checks) = 2
    /\ KindOfFailure(all_failed_checks[1]) = "null"
    /\ KindOfFailure(all_failed_checks[2]) = "count"

\* What C7 says of a finished run.
ExitPolicy ==
    /\ exitStatus # 0 <=> all_failed_checks # <<>>
    /\ all_failed_checks # <<>> =>
          /\ Len(stdout) >= Len(all_failed_checks)
          /\ SubSeq(stdout, Len(stdout) - Len(all_failed_checks) + 1, Len(stdout))
                 = all_failed_checks
    /\ all_failed_checks = <<>> => (SuccessNotice \in Range(stdout) /\ exitStatus = 0)

C8_CountBoundary ==
    /\ FailuresSoFar("count") = ClaimedFailures(Answered("count"))
    /\ PassesSoFar("count") = ClaimedPasses(Answered("count"))

\* C8 witness: one count check at the boundary (actual = min_count > 0) that
\* passed and one below its minimum that failed.
C8_Witness ==
    /\ pc = "done"
    /\ \E i, j \in 1..Len(queries) :
          /\ queries[i].kind = "count" /\ queries[i].row = <<MinCountOf(queries[i])>>
          /\ MinCountOf(queries[i]) > 0
          /\ CountPass(queries[i].table, MinCountOf(queries[i])) \in Range(stdout)
          /\ queries[j].kind = "count" /\ queries[j].row = <<0>>
          /\ CountFailure(queries[j].table, 0, 1) \in Range(all_failed_checks)

\* C9: a unique check fails exactly if the total count differs from the
\* distinct count, and the failure reports total - distinct duplicates.
C9_UniqueDuplicates ==
    /\ FailuresSoFar("unique") = ClaimedFailures(Answered("unique"))
    /\ PassesSoFar("unique") = ClaimedPasses(Answered("unique"))

\* C9 witness: total 2 and distinct 1 reported as 1 duplicate, beside a unique
\* check with equal counts that passed.
C9_Witness ==
    /\ pc = "done"
    /\ \E i, j \in 1..Len(queries) :
          /\ queries[i].kind = "unique" /\ queries[i].row = <<2, 1>>
          /\ UniqueFailure(queries[i].table, queries[i].column, 1)
                 \in Range(all_failed_checks)
          /\ queries[j].kind = "unique" /\ queries[j].row = <<1, 1>>
          /\ UniquePass(queries[j].table, queries[j].column) \in Range(stdout)

\* C10: a null check whose query returns 0 passes and adds nothing to the
\* failure list; one returning k > 0 adds exactly one failure, which holds k.
C10_NullCheck ==
    /\ FailuresSoFar("null") = ClaimedFailures(Answered("null"))
    /\ PassesSoFar("null") = ClaimedPasses(Answered("null"))

\* C10 witness: a null check that found 2 NULLs and failed with 2 in its
\* description, beside one that found none and passed.
C10_Witness ==
    /\ pc = "done"
    /\ \E i, j \in 1..Len(queries) :
          /\ queries[i].kind = "null" /\ queries[i].row = <<2>>
          /\ NullFailure(queries[i].table, queries[i].column, 2)
                 \in Range(all_failed_checks)
          /\ queries[j].kind = "null" /\ queries[j].row = <<0>>
          /\ NullPass(queries[j].table, queries[j].column) \in Range(stdout)

\* The run failed on a document: the oldest exception of the chain is a file
\* that would not load or a key a document lacks.
ConfigurationError ==
    /\ raised # <<>>
    /\ raised[Len(raised)] \in {"load_config", "load_data_quality_rules", "KeyError"}

\* C11: a missing or malformed environment or rule document (a config without
\* database, a rule document without data_quality_checks, a rule record
\* lacking table, columns or min_count) aborts the run before any warehouse
\* call: no session is opened and no check query is executed.
C11_ConfigurationErrorBeforeWarehouse ==
    ConfigurationError => (session = "none" /\ queries = <<>>)

(***************************************************************************)
(* Further claims about deploy_environment                                 *)
(***************************************************************************)

\* No recognised folder holds a .sql file: each is absent, or has none.
NoSqlFiles == \A folder \in Folders : SqlFiles(folder) = {}
\* The folder loop has been entered, and has been left.
FoldersEntered == replacements # <<>>
FoldersLeft ==
    FoldersEntered /\ pc \in {"success", "cursor_close", "conn_close", "exit", "done"}
\* The calls of a log that belong to one folder.
CallsOf(log, folder) == SelectSeq(log, LAMBDA c : c.folder = folder)
\* The statements of the matched files of one folder, in execution order.
FolderCalls(folder) ==
    LET paths == LexicalPaths(folder, VisibleSqlFiles(folder))
    IN  Flatten([i \in 1..Len(paths) |-> FileCalls(folder, paths[i])])

\* C12: when no recognised folder contains a .sql file (the folders are absent
\* or hold none) the deployment hands no statement to the cursor, its folder
\* loop raises nothing and the success line is printed, so that a run whose
\* connector calls all return ends with status 0; an absent folder is skipped:
\* nothing is announced or executed for it, and in a successful run every
\* other folder has had exactly its own statements executed.
C12_NothingToDeploy ==
    /\ NoSqlFiles =>
          /\ attempted = <<>>
          /\ FoldersEntered => Range(raised) \subseteq {"cursor.close"}
          /\ (FoldersLeft /\ pc # "success") => SuccessLine \in Range(stdout)
          /\ (pc = "done" /\ raised = <<>>) => exitStatus = 0
    /\ \A folder \in Folders :
          /\ ~Exists(fs, folder) =>
                /\ CallsOf(attempted, folder) = <<>>
                /\ Line("Deploying", folder) \notin Range(stdout)
          /\ (Succeeded /\ Exists(fs, folder)) =>
                CallsOf(executed, folder) = FolderCalls(folder)

\* C12 witness: a successful deployment over an absent ddl folder, an empty
\* stored_procedures folder and two more folders without .sql files: nothing
\* was executed.
C12_Witness ==
    /\ Succeeded /\ SuccessLine \in Range(stdout)
    /\ ~Exists(fs, FixedSequence[1])
    /\ fs[FixedSequence[2]] = DirEmpty
    /\ NoSqlFiles /\ attempted = <<>>

(***************************************************************************)
(* Further claims about validate_data_quality                              *)
(***************************************************************************)

\* The outcome lines of the console output, in the order printed.
OutcomeTags == {FailureTag[kind] : kind \in Range(KindOrder)}
                   \cup {PassTag[kind] : kind \in Range(KindOrder)}
OutcomeLines == SelectSeq(stdout, LAMBDA d : d.tag \in OutcomeTags)
\* The outcome line of each check, as claimed, in execution order.
ClaimedOutcomes(qs) ==
    [i \in 1..Len(qs) |->
        IF ClaimedToFail(qs[i]) THEN ClaimedFailure(qs[i]) ELSE ClaimedPass(qs[i])]
AnsweredQueries == SelectSeq(queries, LAMBDA q : q.ok)
NothingRaised == Range(raised) \subseteq {"SystemExit"}

\* C13 as stated: the console output of a run in which nothing raises holds
\* one outcome line per check, pass or fail, in the order the checks were
\* executed.
C13_OutcomeLinesInExecutionOrder ==
    (pc = "done" /\ NothingRaised) => OutcomeLines = ClaimedOutcomes(queries)

\* C13 amended: the line of a passing check is printed when the check is
\* executed, the line of a failing check only in the final report; so until
\* the report the outcome lines are the pass lines of the checks executed so
\* far, in execution order, and at the end of a run in which nothing raises
\* there is one outcome line per check: the pass lines in execution order,
\* then the failure lines in execution order.
C13_PassLinesThenFailureLines ==
    /\ "SystemExit" \notin Range(raised) =>
          OutcomeLines = ClaimedPasses(AnsweredQueries)
    /\ (pc = "done" /\ NothingRaised) =>
          /\ OutcomeLines = ClaimedPasses(queries) \o ClaimedFailures(queries)
          /\ Len(OutcomeLines) = Len(queries)

\* C13 witness: a run in which nothing raised, whose first check failed and
\* whose second check passed: the failure line is printed after the pass line.
C13_Witness ==
    /\ pc = "done" /\ NothingRaised /\ Len(queries) >= 2
    /\ ClaimedToFail(queries[1]) /\ ~ClaimedToFail(queries[2])
    /\ OutcomeLines[1] = ClaimedPass(queries[2])
    /\ OutcomeLines[Len(OutcomeLines)] # ClaimedPass(queries[Len(queries)])

\* The total execution order of the deployment: folder order, then lexical
\* file order, then source order.
TotalOrder == ExpectedCalls(VisibleSqlFiles)

\* C14: when the deployment aborts at a failing statement, the statements
\* applied are exactly those of the total execution order (folder order, file
\* order, source order) strictly before the failing one; an applied statement
\* is never taken back, and after the failure nothing is applied again.
C14_AppliedPrefix ==
    /\ [](StatementFailed =>
              /\ IsPrefix(attempted, TotalOrder)
              /\ executed = SubSeq(TotalOrder, 1, Len(attempted) - 1))
    /\ [][/\ IsPrefix(executed, executed')
          /\ StatementFailed => executed' = executed]_vars

\* C14 witness: a deployment that ended at a failing statement of a later file
\* than its first, with statements applied before it and statements left.
C14_Witness ==
    /\ pc = "done" /\ StatementFailed
    /\ Len(executed) >= 2
    /\ executed[1].path # attempted[Len(attempted)].path
    /\ Len(attempted) < Len(TotalOrder)
    /\ session = "closed"

\* The queries of one kind issued so far, and the checks of that kind the rule
\* set asks for.
QueriesOf(kind) == SelectSeq(queries, LAMBDA q : q.kind = kind)
ExpectedOfKind(kind) ==
    CASE kind = "null" -> ColumnKeys("null", Get(checks, "null_checks"))
      [] kind = "unique" -> ColumnKeys("unique", Get(checks, "unique_checks"))
      [] kind = "count" ->
            [r \in 1..Len(Get(checks, "count_checks")) |->
                CheckKey("count", r, 0, Get(checks, "count_checks")[r].table, "*")]
\* Every rule record of a kind has the keys the kind needs.
RecordsComplete(kind) ==
    LET list == Get(checks, kind \o "_checks")
        needed == IF kind = "count" THEN {"table", "min_count"} ELSE {"table", "columns"}
    IN  \A r \in 1..Len(list) : needed \subseteq DOMAIN list[r]
\* The pass of a kind is over: a query of a later kind has been issued, or the
\* report is due or made.
PassOver(kind) ==
    \/ \E i \in 1..Len(queries) : KindRank(queries[i].kind) > KindRank(kind)
    \/ ChecksDone

\* C15: the three passes never interleave: every null query is issued before
\* any unique query and every unique query before any count query; and a pass
\* that is over has met no incomplete rule record and has queried every check
\* of its kind, to its last rule, whatever failed on the way.
C15_PassesDoNotInterleave ==
    /\ \A i, j \in 1..Len(queries) :
          i < j => KindRank(queries[i].kind) <= KindRank(queries[j].kind)
    /\ \A kind \in Range(KindOrder) :
          PassOver(kind) =>
              /\ RecordsComplete(kind)
              /\ Keys(QueriesOf(kind)) = ExpectedOfKind(kind)

\* C15 witness: count queries issued after a null pass that met a failure at
\* its first check and still ran to its last, and after a unique pass with a
\* failure.
C15_Witness ==
    /\ QueriesOf("count") # <<>>
    /\ Len(QueriesOf("null")) >= 2 /\ ClaimedToFail(QueriesOf("null")[1])
    /\ Len(QueriesOf("unique")) >= 2 /\ ClaimedToFail(QueriesOf("unique")[1])
    /\ FailuresSoFar("null") # <<>> /\ FailuresSoFar("unique") # <<>>

(***************************************************************************)
(* Claims about execute_sql_file: substitution and splitting               *)
(***************************************************************************)

\* The text of the file as read, before substitution.
SourceText == ReadFile(fs, environment, sql_files[1])
\* execute_sql_file has substituted and split the text of the file.
Substituted == pc = "statement"

\* One pass over the text, left to right: at a token of a key of the map the
\* key's value is put, anything else is copied; what was put is not looked at
\* again.
RECURSIVE Simultaneous(_, _)
Simultaneous(text, repl) ==
    IF text = <<>> THEN <<>>
    ELSE LET hits == {i \in 1..Len(repl) : StartsWith(text, Token(repl[i].key))}
         IN  IF hits = {} THEN <<text[1]>> \o Simultaneous(Tail(text), repl)
             ELSE LET i == CHOOSE k \in hits : TRUE
                  IN  repl[i].value
                          \o Simultaneous(
                                 SubSeq(text, Len(Token(repl[i].key)) + 1, Len(text)),
                                 repl)

\* C16: substitution puts, at every occurrence of {KEY} for a key of the
\* placeholder map, that key's value, which is then found literally at that
\* place of the executed text; every other part of the text, the tokens of
\* unknown keys included, is left as it was, and nothing is raised.
C16_TokensReplacedLiterally ==
    Substituted =>
        /\ sql_content = Simultaneous(SourceText, replacements)
        /\ raised = <<>>

\* The positions that bound the pieces of a text: before it, its semicolons,
\* after it; and the pieces between neighbouring bounds, in source order.
Bounds(text) == {0, Len(text) + 1} \cup {i \in 1..Len(text) : text[i] = ";"}
PiecesBetween(text) ==
    LET B == Bounds(text)
        cut(k) == CHOOSE c \in B : Cardinality({d \in B : d < c}) = k - 1
    IN  [k \in 1..(Cardinality(B) - 1) |-> SubSeq(text, cut(k) + 1, cut(k + 1) - 1)]
\* A piece without its leading and trailing whitespace.
Trimmed(piece) ==
    LET inked == {i \in 1..Len(piece) : piece[i] \notin Whitespace}
    IN  IF inked = {} THEN <<>>
        ELSE SubSeq(piece,
                    CHOOSE i \in inked : \A j \in inked : i <= j,
                    CHOOSE i \in inked : \A j \in inked : j <= i)
ClaimedStatements(text) ==
    LET kept == SelectSeq(PiecesBetween(text), LAMBDA p : Trimmed(p) # <<>>)
    IN  [k \in 1..Len(kept) |-> Trimmed(kept[k])]
\* ';'.join(statements)
RECURSIVE Join(_)
Join(stmts) ==
    IF stmts = <<>> THEN <<>>
    ELSE IF Len(stmts) = 1 THEN stmts[1]
    ELSE stmts[1] \o <<";">> \o Join(Tail(stmts))

\* C17: the statements are, in source order, exactly the pieces of the
\* substituted text between semicolons that are non-empty once trimmed, each
\* trimmed; so every statement is non-empty, neither starts nor ends with
\* whitespace and holds no semicolon; and joining the statements with
\* semicolons and splitting again gives the same statements.
C17_SplitStatements ==
    Substituted =>
        /\ statements = ClaimedStatements(sql_content)
        /\ \A k \in 1..Len(statements) :
              /\ statements[k] # <<>>
              /\ statements[k][1] \notin Whitespace
              /\ statements[k][Len(statements[k])] \notin Whitespace
              /\ ";" \notin Range(statements[k])
        /\ SplitStatements(Join(statements)) = statements

\* C17 witness: a text with two statements, an empty or blank piece that was
\* dropped, and a piece that lost whitespace in trimming.
C17_Witness ==
    /\ Substituted
    /\ Len(statements) = 2
    /\ Len(PiecesBetween(sql_content)) > 2
    /\ \E k \in 1..Len(PiecesBetween(sql_content)) :
          LET piece == PiecesBetween(sql_content)[k]
          IN  Trimmed(piece) # <<>> /\ Trimmed(piece) # piece

\* A check query raised: cursor.execute or cursor.fetchone threw.
QueryRaised == \E i \in 1..Len(queries) : ~queries[i].ok

\* C18: when a check query itself raises, validation stops at that query: no
\* later check is executed, the failures collected before it are never
\* reported, the run ends in error and not in success, and the cursor and the
\* session have been closed when it ends.
C18_QueryErrorStopsValidation ==
    /\ QueryRaised =>
          /\ ~queries[Len(queries)].ok
          /\ \A i \in 1..(Len(queries) - 1) : queries[i].ok
          /\ \A d \in Range(stdout) :
                d.tag \notin {FailureTag[kind] : kind \in Range(KindOrder)}
          /\ Notice("Data Quality Validation FAILED") \notin Range(stdout)
          /\ SuccessNotice \notin Range(stdout)
          /\ "query" \in Range(raised)
    /\ (QueryRaised /\ pc = "done") =>
          /\ exitStatus # 0
          /\ cursor = "closed"
          /\ session = "closed"

\* The placeholder map with its keys in every order.
Orderings(repl) ==
    {[i \in 1..Len(repl) |-> repl[p[i]]] : p \in Listings(1..Len(repl))}

\* C19: the substituted text does not depend on the order in which the keys
\* are applied, and equals one simultaneous substitution of the source text:
\* a value that holds the token of another key is put as it is and not
\* substituted again.
C19_OrderIndependent ==
    Substituted =>
        /\ \A order \in Orderings(replacements) :
              Substitute(SourceText, order) = sql_content
        /\ \A order \in Orderings(replacements) :
              Simultaneous(SourceText, order) = sql_content

\* This step issued a check query that was answered with no row (fetchone
\* gave None); the query it issued.
NoRowAnswered ==
    /\ Len(queries') = Len(queries) + 1
    /\ queries'[Len(queries')].ok
    /\ queries'[Len(queries')].row = NoRow
Issued == queries'[Len(queries')]

\* C20: when a check query returns no row every count read from it is taken
\* as 0: a null check passes, a unique check passes, and a count check fails
\* exactly if its min_count is greater than 0 (reporting 0 rows); nothing is
\* raised and the pass goes on.
C20_NoRowCountsAsZero ==
    [][NoRowAnswered =>
          /\ raised' = raised /\ pc' = pc
          /\ Issued.kind = "null" =>
                /\ stdout' = Append(stdout, NullPass(Issued.table, Issued.column))
                /\ failed_checks' = failed_checks
          /\ Issued.kind = "unique" =>
                /\ stdout' = Append(stdout, UniquePass(Issued.table, Issued.column))
                /\ failed_checks' = failed_checks
          /\ Issued.kind = "count" =>
                LET min_count == Get(checks, "count_checks")[Issued.rule].min_count
                IN  IF min_count > 0
                    THEN /\ failed_checks' =
                              Append(failed_checks,
                                     CountFailure(Issued.table, 0, min_count))
                         /\ stdout' = stdout
                    ELSE /\ stdout' = Append(stdout, CountPass(Issued.table, 0))
                         /\ failed_checks' = failed_checks]_vars

\* C20 witness: a run in which a null query, a unique query and a count query
\* with min_count 1 each returned no row: the first two passed and the count
\* check failed with 0 rows.
C20_Witness ==
    /\ pc = "done" /\ raised = <<"SystemExit">>
    /\ \E i, j, k \in 1..Len(queries) :
          /\ queries[i].kind = "null" /\ queries[i].ok /\ queries[i].row = NoRow
          /\ NullPass(queries[i].table, queries[i].column) \in Range(stdout)
          /\ queries[j].kind = "unique" /\ queries[j].ok /\ queries[j].row = NoRow
          /\ UniquePass(queries[j].table, queries[j].column) \in Range(stdout)
          /\ queries[k].kind = "count" /\ queries[k].ok /\ queries[k].row = NoRow
          /\ MinCountOf(queries[k]) = 1
          /\ CountFailure(queries[k].table, 0, 1) \in Range(all_failed_checks)

====
